---- MODULE Spec2Model ----
(***************************************************************************)
(* The service template terraform/templates/service/src/app.py: a FastAPI  *)
(* application with two GET endpoints, `/` and `/health`.                   *)
(*                                                                         *)
(* State: the process environment (os.environ) and the HTTP exchanges in   *)
(* flight, one per connection.  An exchange is received, routed by the     *)
(* application's router, answered by its endpoint and sent.  The process   *)
(* environment may be changed at any moment by code outside the handlers.  *)
(*                                                                         *)
(* A URL path is the sequence of its segments, path.split("/")[1:]:        *)
(*   "/" = <<"">>, "/health" = <<"health">>, "/health/" = <<"health","">>. *)
(***************************************************************************)
EXTENDS Naturals, Sequences, FiniteSets

VARIABLES
    environ,    \* os.environ: a function from the names that are set to their values
    conns       \* conns[c]: the exchange on connection c

vars == <<environ, conns>>

----------------------------------------------------------------------------
(* Bounds of the model *)

\* Number of connections, hence of requests in flight at the same time.
MaxInFlight == 2

Conns == 1..MaxInFlight

\* Names and values of environment variables the model draws from.
EnvNames == {"ENVIRONMENT", "ENV"}
EnvValues == {"", "staging"}

\* Requests the model draws from.
GET(path) == [ method |-> "GET", path |-> path ]
POST(path) == [ method |-> "POST", path |-> path ]
Requests ==
    { GET(<<"">>),               \* GET /
      GET(<<"health">>),         \* GET /health
      GET(<<"health", "">>),     \* GET /health/
      GET(<<"healthz">>),        \* GET /healthz
      GET(<<"", "">>),           \* GET //
      GET(<<"docs">>),           \* GET /docs
      GET(<<"openapi.json">>),   \* GET /openapi.json
      POST(<<"">>),              \* POST /
      POST(<<"healthz">>) }      \* POST /healthz

\* Every process environment over EnvNames.
Environs == UNION { [D -> EnvValues] : D \in SUBSET EnvNames }

----------------------------------------------------------------------------
(* os.getenv *)

\* os.getenv(key, default): the value of key when it is set, whatever the
\* value (the empty string included), and default only when key is absent.
\* Variant: `os.environ.get(key) or default`, which treats an empty value as absent.
getenv_falsy(env, key, default) ==
    IF key \in DOMAIN env /\ env[key] # "" THEN env[key] ELSE default

getenv(env, key, default) ==
    IF key \in DOMAIN env THEN env[key] ELSE default

----------------------------------------------------------------------------
(* The endpoints.  An endpoint is given the process environment and yields *)
(* the value it returns together with the process environment it leaves.   *)

\* Variant: another default than "production".
root_default_development(env) ==
    [ content |-> [ service     |-> "SERVICE_NAME",
                    status      |-> "running",
                    environment |-> getenv(env, "ENVIRONMENT", "development") ],
      environ |-> env ]

\* Variant: the variable ENV is read instead of ENVIRONMENT.
root_wrong_key(env) ==
    [ content |-> [ service     |-> "SERVICE_NAME",
                    status      |-> "running",
                    environment |-> getenv(env, "ENV", "production") ],
      environ |-> env ]

\* Variant: the environment is resolved once and the value reused: a root
\* response still held by a connection decides the next one.
root_cached(env) ==
    LET held == { conns[c].response.body.environment :
                    c \in { d \in DOMAIN conns :
                              /\ conns[d].endpoint = "root"
                              /\ conns[d].phase \in {"responded", "sent"} } }
    IN  [ content |-> [ service     |-> "SERVICE_NAME",
                        status      |-> "running",
                        environment |-> IF held = {}
                                        THEN getenv(env, "ENVIRONMENT", "production")
                                        ELSE CHOOSE v \in held : TRUE ],
          environ |-> env ]

\* Variant: the service name is taken from the environment too.
root_service_from_env(env) ==
    [ content |-> [ service     |-> getenv(env, "ENV", "SERVICE_NAME"),
                    status      |-> "running",
                    environment |-> getenv(env, "ENVIRONMENT", "production") ],
      environ |-> env ]

\* Variant: os.environ.setdefault("ENVIRONMENT", "production"), which writes
\* the default into the process environment.
root_setdefault(env) ==
    [ content |-> [ service     |-> "SERVICE_NAME",
                    status      |-> "running",
                    environment |-> getenv(env, "ENVIRONMENT", "production") ],
      environ |-> [ n \in DOMAIN env \cup {"ENVIRONMENT"} |->
                      IF n \in DOMAIN env THEN env[n] ELSE "production" ] ]

\* Variant: the status depends on the other requests in flight.
root_busy(env) ==
    [ content |-> [ service     |-> "SERVICE_NAME",
                    status      |-> IF Cardinality({ c \in DOMAIN conns :
                                           conns[c].phase \in {"received", "routed"} }) > 1
                                    THEN "busy" ELSE "running",
                    environment |-> getenv(env, "ENVIRONMENT", "production") ],
      environ |-> env ]

root(env) ==
    [ content |-> [ service     |-> "SERVICE_NAME",
                    status      |-> "running",
                    environment |-> getenv(env, "ENVIRONMENT", "production") ],
      environ |-> env ]

\* Variant: the health payload reports the environment as well.
health_with_environment(env) ==
    [ content |-> [ status      |-> "healthy",
                    environment |-> getenv(env, "ENVIRONMENT", "production") ],
      environ |-> env ]

health(env) ==
    [ content |-> [ status |-> "healthy" ],
      environ |-> env ]

----------------------------------------------------------------------------
(* Responses *)

NoResponse == [ status_code |-> 0, media_type |-> "", body |-> <<>> ]

\* The response class of an @app.get route without response_class: the
\* returned value rendered as JSON, status 200.
JSONResponse(content) ==
    [ status_code |-> 200, media_type |-> "application/json", body |-> content ]

\* The pages and the schema FastAPI(title="SERVICE_NAME") serves by default.
HTMLResponse(page) ==
    [ status_code |-> 200, media_type |-> "text/html",
      body |-> [ html |-> page, title |-> "SERVICE_NAME" ] ]

openapi_schema ==
    [ info  |-> [ title |-> "SERVICE_NAME" ],
      paths |-> { "/", "/health" } ]

\* The router's answers when no endpoint is called.
NotFound ==
    [ status_code |-> 404, media_type |-> "application/json",
      body |-> [ detail |-> "Not Found" ] ]

MethodNotAllowed ==
    [ status_code |-> 405, media_type |-> "application/json",
      body |-> [ detail |-> "Method Not Allowed" ] ]

RedirectResponse(path) ==
    [ status_code |-> 307, media_type |-> "", body |-> [ location |-> path ] ]

----------------------------------------------------------------------------
(* The application's routes *)

\* Variant: the endpoints registered with @app.post.
app_post == {"POST"}

\* The method set registered by the decorator @app.get.
app_get == {"GET"}

\* Routes added by the constructor FastAPI(title="SERVICE_NAME"), whose
\* openapi_url, docs_url, swagger_ui_oauth2_redirect_url and redoc_url are
\* left at their defaults.
default_routes ==
    << [ path |-> <<"openapi.json">>,            methods |-> {"GET", "HEAD"}, endpoint |-> "openapi" ],
       [ path |-> <<"docs">>,                    methods |-> {"GET", "HEAD"}, endpoint |-> "swagger_ui_html" ],
       [ path |-> <<"docs", "oauth2-redirect">>, methods |-> {"GET", "HEAD"}, endpoint |-> "swagger_ui_redirect" ],
       [ path |-> <<"redoc">>,                   methods |-> {"GET", "HEAD"}, endpoint |-> "redoc_html" ] >>

\* Variant: the health endpoint registered under /healthz as well.
decorated_routes_healthz ==
    << [ path |-> <<"">>,        methods |-> app_get, endpoint |-> "root" ],
       [ path |-> <<"health">>,  methods |-> app_get, endpoint |-> "health" ],
       [ path |-> <<"healthz">>, methods |-> app_get, endpoint |-> "health" ] >>

\* Routes added by the two decorators, in the order of the file.
decorated_routes ==
    << [ path |-> <<"">>,       methods |-> app_get, endpoint |-> "root" ],
       [ path |-> <<"health">>, methods |-> app_get, endpoint |-> "health" ] >>

\* app.routes
routes == default_routes \o decorated_routes

\* Route.matches: "NONE" when the path is not the route's, "PARTIAL" when the
\* path is and the method is not, "FULL" otherwise.
matches(route, method, path) ==
    IF path # route.path THEN "NONE"
    ELSE IF method \notin route.methods THEN "PARTIAL"
    ELSE "FULL"

\* The first index of rs at which Route.matches gives `kind`, 0 when none.
first_match(rs, kind, method, path) ==
    LET hits == { i \in 1..Len(rs) : matches(rs[i], method, path) = kind }
    IN  IF hits = {} THEN 0
        ELSE CHOOSE i \in hits : \A j \in hits : i <= j

\* str.rstrip("/"): the path without its trailing empty segments.
RECURSIVE rstrip(_)
rstrip(path) ==
    IF path = <<>> THEN <<>>
    ELSE IF path[Len(path)] = "" THEN rstrip(SubSeq(path, 1, Len(path) - 1))
    ELSE path

\* The path the router tries when nothing matched: without its trailing
\* slashes when it ends with one, with one appended otherwise.
redirect_path(path) ==
    IF path[Len(path)] = "" THEN rstrip(path) ELSE Append(path, "")

\* The router: the first full match is called; else the first partial
\* match answers 405; else a path that differs from a route's by its
\* trailing slash is redirected; else 404.
Router(method, path) ==
    LET full    == first_match(routes, "FULL", method, path)
        partial == first_match(routes, "PARTIAL", method, path)
    IN  IF full # 0 THEN [ kind |-> "endpoint", endpoint |-> routes[full].endpoint, response |-> NoResponse ]
        ELSE IF partial # 0 THEN [ kind |-> "response", endpoint |-> "", response |-> MethodNotAllowed ]
        ELSE IF /\ path # <<"">>
                /\ \E i \in 1..Len(routes) : matches(routes[i], method, redirect_path(path)) # "NONE"
             THEN [ kind |-> "response", endpoint |-> "", response |-> RedirectResponse(redirect_path(path)) ]
        ELSE [ kind |-> "response", endpoint |-> "", response |-> NotFound ]

\* Calling the endpoint a route names and rendering what it returns.
call_endpoint(endpoint, env) ==
    CASE endpoint = "root" ->
            [ response |-> JSONResponse(root(env).content), environ |-> root(env).environ ]
      [] endpoint = "health" ->
            [ response |-> JSONResponse(health(env).content), environ |-> health(env).environ ]
      [] endpoint = "openapi" ->
            [ response |-> JSONResponse(openapi_schema), environ |-> env ]
      [] endpoint = "swagger_ui_html" ->
            [ response |-> HTMLResponse("swagger-ui"), environ |-> env ]
      [] endpoint = "swagger_ui_redirect" ->
            [ response |-> HTMLResponse("oauth2-redirect"), environ |-> env ]
      [] endpoint = "redoc_html" ->
            [ response |-> HTMLResponse("redoc"), environ |-> env ]

----------------------------------------------------------------------------
(* The state machine *)

Idle ==
    [ phase |-> "idle", method |-> "", path |-> <<>>, endpoint |-> "",
      response |-> NoResponse ]

Init ==
    /\ environ \in Environs
    /\ conns = [ c \in Conns |-> Idle ]

\* A request arrives on a connection that has none in flight.
Receive(c, method, path) ==
    /\ conns[c].phase \in {"idle", "sent"}
    /\ conns' = [ conns EXCEPT ![c] =
                    [ phase |-> "received", method |-> method, path |-> path,
                      endpoint |-> "", response |-> NoResponse ] ]
    /\ UNCHANGED environ

\* The router looks the request up in app.routes.
Route(c) ==
    /\ conns[c].phase = "received"
    /\ LET r == Router(conns[c].method, conns[c].path)
       IN  conns' = [ conns EXCEPT ![c] =
                        [ @ EXCEPT !.phase = IF r.kind = "endpoint" THEN "routed" ELSE "responded",
                                   !.endpoint = r.endpoint,
                                   !.response = r.response ] ]
    /\ UNCHANGED environ

\* The matched endpoint runs and its return value is rendered.
Call(c) ==
    /\ conns[c].phase = "routed"
    /\ LET r == call_endpoint(conns[c].endpoint, environ)
       IN  /\ conns' = [ conns EXCEPT ![c] =
                           [ @ EXCEPT !.phase = "responded", !.response = r.response ] ]
           /\ environ' = r.environ

\* The response is written to the client.
Send(c) ==
    /\ conns[c].phase = "responded"
    /\ conns' = [ conns EXCEPT ![c] = [ @ EXCEPT !.phase = "sent" ] ]
    /\ UNCHANGED environ

\* Code outside the handlers sets or deletes an environment variable.
SetEnv(name, value) ==
    /\ environ' = [ n \in DOMAIN environ \cup {name} |->
                      IF n = name THEN value ELSE environ[n] ]
    /\ environ' # environ
    /\ UNCHANGED conns

UnsetEnv(name) ==
    /\ name \in DOMAIN environ
    /\ environ' = [ n \in DOMAIN environ \ {name} |-> environ[n] ]
    /\ UNCHANGED conns

Serve ==
    \/ \E c \in Conns, req \in Requests : Receive(c, req.method, req.path)
    \/ \E c \in Conns : Route(c)
    \/ \E c \in Conns : Call(c)
    \/ \E c \in Conns : Send(c)

Next ==
    \/ Serve
    \/ \E name \in EnvNames, value \in EnvValues : SetEnv(name, value)
    \/ \E name \in EnvNames : UnsetEnv(name)

Spec == Init /\ [][Next]_vars

\* The service with its process environment held fixed.
SpecFixedEnv == Init /\ [][Serve]_vars

----------------------------------------------------------------------------
(* Properties *)

\* The request on connection c is `GET path`.
IsGet(c, path) == conns[c].method = "GET" /\ conns[c].path = path

\* The request on connection c has its response.
Answered(c) == conns[c].phase \in {"responded", "sent"}

\* This step is the one in which the endpoint of connection c runs.
Called(c) == conns[c].phase = "routed" /\ conns'[c].phase = "responded"

\* The value of field f of a response body.
Field(c, f) == conns[c].response.body[f]
HasField(c, f) == f \in DOMAIN conns[c].response.body

RootPath == <<"">>
HealthPath == <<"health">>

\* C1: whenever GET / is handled while ENVIRONMENT is not set, the body's
\* environment field is the literal "production".
C1_DefaultIsProduction ==
    [][ \A c \in Conns :
          (Called(c) /\ IsGet(c, RootPath) /\ "ENVIRONMENT" \notin DOMAIN environ)
          => /\ "environment" \in DOMAIN conns'[c].response.body
             /\ conns'[c].response.body.environment = "production" ]_vars

C1_Witness ==
    \E c \in Conns :
        /\ Answered(c) /\ IsGet(c, RootPath)
        /\ HasField(c, "environment") /\ Field(c, "environment") = "production"
        /\ "ENVIRONMENT" \notin DOMAIN environ

\* C2: whenever GET / is handled while ENVIRONMENT is set to v, the body's
\* environment field is v; the default is not substituted for a set value.
C2_SetValueIsReported ==
    [][ \A c \in Conns : \A v \in EnvValues :
          ( /\ Called(c) /\ IsGet(c, RootPath)
            /\ "ENVIRONMENT" \in DOMAIN environ
            /\ environ["ENVIRONMENT"] = v )
          => /\ "environment" \in DOMAIN conns'[c].response.body
             /\ conns'[c].response.body.environment = v
             /\ conns'[c].response.body.environment # "production" ]_vars

C2_Witness ==
    \E c \in Conns :
        /\ Answered(c) /\ IsGet(c, RootPath)
        /\ HasField(c, "environment") /\ Field(c, "environment") = "staging"
        /\ "ENVIRONMENT" \in DOMAIN environ
        /\ environ["ENVIRONMENT"] = "staging"

\* C3: in every reachable state the body answered to GET /health is exactly
\* {"status": "healthy"}, whatever the environment and the other requests.
C3_HealthBody ==
    \A c \in Conns :
        (Answered(c) /\ IsGet(c, HealthPath))
        => conns[c].response.body = [ status |-> "healthy" ]

C3_Witness ==
    \E c, d \in Conns :
        /\ c # d
        /\ conns[c].phase = "sent" /\ IsGet(c, HealthPath)
        /\ conns[c].response.body = [ status |-> "healthy" ]
        /\ Answered(d) /\ IsGet(d, RootPath)
        /\ HasField(d, "environment") /\ Field(d, "environment") = "staging"
        /\ "ENVIRONMENT" \notin DOMAIN environ

\* C4: every GET / and every GET /health is answered with status 200 and a
\* JSON content type, whatever the environment and the earlier requests.
C4_Status200Json ==
    \A c \in Conns :
        (Answered(c) /\ (IsGet(c, RootPath) \/ IsGet(c, HealthPath)))
        => /\ conns[c].response.status_code = 200
           /\ conns[c].response.media_type = "application/json"

C4_Witness ==
    \E c, d \in Conns :
        /\ conns[c].phase = "sent" /\ IsGet(c, RootPath)
        /\ conns[c].response.status_code = 200
        /\ conns[c].response.media_type = "application/json"
        /\ conns[d].phase = "sent" /\ IsGet(d, HealthPath)
        /\ conns[d].response.status_code = 200
        /\ conns[d].response.media_type = "application/json"
        /\ "ENVIRONMENT" \in DOMAIN environ /\ environ["ENVIRONMENT"] = ""

\* The bodies the root and the health endpoint can return.
RootPayloads ==
    { [ service |-> "SERVICE_NAME", status |-> "running", environment |-> e ] :
        e \in EnvValues \cup {"production"} }
HealthPayload == [ status |-> "healthy" ]

\* C5 as stated: a request to any path other than / and /health is answered
\* with status 404, never 200, and with neither endpoint's payload.
C5_OnlyTwoRoutes ==
    \A c \in Conns :
        (Answered(c) /\ conns[c].path \notin {RootPath, HealthPath})
        => /\ conns[c].response.status_code = 404
           /\ conns[c].response.body \notin RootPayloads \cup {HealthPayload}

\* The paths of the application's routes: the two endpoints of the file and
\* the four the framework serves by default.
RoutePaths ==
    { RootPath, HealthPath,
      <<"openapi.json">>, <<"docs">>, <<"docs", "oauth2-redirect">>, <<"redoc">> }

\* The path is a route's path other than / followed by trailing slashes.
SlashVariant(path) ==
    \E k \in 1..(Len(path) - 1) :
        /\ SubSeq(path, 1, k) \in RoutePaths \ {RootPath}
        /\ \A j \in (k + 1)..Len(path) : path[j] = ""

\* C5 (amended): a request whose path matches none of the application's
\* routes -- /, /health and the framework's /openapi.json, /docs,
\* /docs/oauth2-redirect, /redoc -- is never answered with status 200 nor
\* with the root or health payload: it is answered 404, or 307 when the path
\* is a route's path followed by trailing slashes.
C5_UnknownPathNotFound ==
    \A c \in Conns :
        (Answered(c) /\ conns[c].path \notin RoutePaths)
        => /\ conns[c].response.status_code # 200
           /\ conns[c].response.status_code =
                 (IF SlashVariant(conns[c].path) THEN 307 ELSE 404)
           /\ conns[c].response.body \notin RootPayloads \cup {HealthPayload}

C5_Witness ==
    \E c, d \in Conns :
        /\ conns[c].phase = "sent" /\ IsGet(c, <<"healthz">>)
        /\ conns[c].response = NotFound
        /\ conns[d].phase = "sent" /\ IsGet(d, <<"health", "">>)
        /\ conns[d].response.status_code = 307

\* C6: the root response always has exactly the fields service, status and
\* environment, with service = "SERVICE_NAME" and status = "running"
\* whatever the environment.
C6_RootShape ==
    \A c \in Conns :
        (Answered(c) /\ IsGet(c, RootPath))
        => /\ DOMAIN conns[c].response.body = {"service", "status", "environment"}
           /\ conns[c].response.body.service = "SERVICE_NAME"
           /\ conns[c].response.body.status = "running"

C6_Witness ==
    \E c, d \in Conns :
        /\ Answered(c) /\ IsGet(c, RootPath)
        /\ Answered(d) /\ IsGet(d, RootPath)
        /\ HasField(c, "environment") /\ HasField(d, "environment")
        /\ Field(c, "environment") = "production"
        /\ Field(d, "environment") = ""
        /\ HasField(c, "service") /\ HasField(d, "service")
        /\ Field(c, "service") = Field(d, "service")
        /\ "ENV" \in DOMAIN environ

\* C7: ENVIRONMENT is read when a GET / is handled: the response reports the
\* value in effect at that step (the default when unset), whatever the
\* environment was when the request arrived and whatever earlier responses
\* reported.
C7_ReadAtHandlingTime ==
    [][ \A c \in Conns :
          (Called(c) /\ IsGet(c, RootPath))
          => /\ "environment" \in DOMAIN conns'[c].response.body
             /\ conns'[c].response.body.environment =
                   (IF "ENVIRONMENT" \in DOMAIN environ
                    THEN environ["ENVIRONMENT"] ELSE "production") ]_vars

C7_Witness ==
    \E c, d \in Conns :
        /\ Answered(c) /\ IsGet(c, RootPath)
        /\ Answered(d) /\ IsGet(d, RootPath)
        /\ HasField(c, "environment") /\ HasField(d, "environment")
        /\ Field(c, "environment") = "staging"
        /\ Field(d, "environment") = "production"

\* C8: a step that handles a request (receives, routes, calls the endpoint
\* of, or sends the response of the request on some connection) leaves the
\* process environment and every other connection unchanged.
C8_HandlersOnlyRead ==
    [][ \A c \in Conns :
          conns'[c] # conns[c]
          => /\ environ' = environ
             /\ \A d \in Conns \ {c} : conns'[d] = conns[d] ]_vars

C8_Witness ==
    \E c, d \in Conns :
        /\ conns[c].phase = "sent" /\ IsGet(c, RootPath)
        /\ conns[d].phase = "sent" /\ IsGet(d, <<"healthz">>)
        /\ environ = <<>>

\* The response GET / receives when handled alone under environment env.
AloneRoot(env) ==
    [ status_code |-> 200, media_type |-> "application/json",
      body |-> [ service |-> "SERVICE_NAME", status |-> "running",
                 environment |-> IF "ENVIRONMENT" \in DOMAIN env
                                 THEN env["ENVIRONMENT"] ELSE "production" ] ]

\* The response GET /health receives when handled alone.
AloneHealth ==
    [ status_code |-> 200, media_type |-> "application/json",
      body |-> [ status |-> "healthy" ] ]

\* C9: with the environment held fixed, under every interleaving each GET /
\* and GET /health completes with the response it receives when handled
\* alone, and the next step of every request in flight is enabled whatever
\* the other connections are doing.
C9_Independent ==
    \A c \in Conns :
        /\ (Answered(c) /\ IsGet(c, RootPath)) => conns[c].response = AloneRoot(environ)
        /\ (Answered(c) /\ IsGet(c, HealthPath)) => conns[c].response = AloneHealth
        /\ conns[c].phase = "received" => ENABLED Route(c)
        /\ conns[c].phase = "routed" => ENABLED Call(c)
        /\ conns[c].phase = "responded" => ENABLED Send(c)

C9_Witness ==
    \E c, d \in Conns :
        /\ c # d
        /\ conns[c].phase = "sent" /\ IsGet(c, RootPath)
        /\ conns[c].response = AloneRoot(environ)
        /\ conns[d].phase = "routed" /\ IsGet(d, RootPath)

\* C10: whenever GET / is handled while ENVIRONMENT is set to the empty
\* string, the body's environment field is the empty string.
C10_EmptyIsNotDefault ==
    [][ \A c \in Conns :
          ( /\ Called(c) /\ IsGet(c, RootPath)
            /\ "ENVIRONMENT" \in DOMAIN environ
            /\ environ["ENVIRONMENT"] = "" )
          => /\ "environment" \in DOMAIN conns'[c].response.body
             /\ conns'[c].response.body.environment = "" ]_vars

C10_Witness ==
    \E c \in Conns :
        /\ conns[c].phase = "sent" /\ IsGet(c, RootPath)
        /\ HasField(c, "environment") /\ Field(c, "environment") = ""
        /\ "ENVIRONMENT" \in DOMAIN environ
        /\ environ["ENVIRONMENT"] = ""

====
